---- MODULE Spec2Model ----
(***************************************************************************)
(* Model of the _Pooling2D layer of keras-js (pooling/_Pooling2D.js).      *)
(*                                                                         *)
(* A tensor is a record [shape, data, buf]: shape is the ndarray shape     *)
(* (three extents), data maps every zero-based index triple of the shape   *)
(* to its element, and buf names the backing buffer the view reads, so     *)
(* that replacing a buffer is distinguishable from keeping it.             *)
(* A layer is a record of the fields the constructor and _calcOutputShape  *)
(* assign.  The caller constructs one layer and passes it the tensors of   *)
(* `pending`, one call after the other.                                    *)
(***************************************************************************)
EXTENDS Integers, Sequences, FiniteSets, TLC

VARIABLES
    layer,      \* the _Pooling2D instance
    attrs,      \* the attributes the instance was constructed from
    pending,    \* the tensors the caller still has to pass to call
    x,          \* the Tensor handle of the last call (x.tensor), as call left it
    xIn,        \* x.tensor as it was when the last call was entered
    layerIn,    \* the instance as it was when the last call was entered
    trace,      \* what the last call did: its intermediate tensors and loop
    err,        \* the last call threw
    calls       \* number of calls made on the instance

vars == <<layer, attrs, pending, x, xIn, layerIn, trace, err, calls>>

----------------------------------------------------------------------------
(* Bounds of the model *)

MaxPool == 3
MaxStride == 2
MaxDim == 3
MaxChan == 2
SeqMaxPool == 2
SeqMaxDim == 2
MaxCalls == 2

(* Number.NEGATIVE_INFINITY: an integer below every finite value and every *)
(* sum of finite values the model builds.                                  *)
NEGATIVE_INFINITY == -1000000

Undefined == <<>>
NoTensor == [shape |-> <<0, 0, 0>>, data |-> <<>>, buf |-> "none"]

----------------------------------------------------------------------------
(* Arithmetic *)

Max(a, b) == IF a >= b THEN a ELSE b
Abs(a) == IF a < 0 THEN -a ELSE a

RECURSIVE Gcd(_, _)
Gcd(a, b) == IF b = 0 THEN a ELSE Gcd(b, a % b)

(* The quotient a / b of two integers as an exact rational in lowest terms *)
(* with a positive denominator; b = 0 (NaN or an infinity in the program)  *)
(* keeps denominator 0.                                                    *)
Quot(a, b) ==
    IF b = 0 THEN <<a, 0>>
    ELSE LET g == Gcd(Abs(a), Abs(b))
             s == IF b < 0 THEN -1 ELSE 1
         IN  <<(s * a) \div g, (s * b) \div g>>

----------------------------------------------------------------------------
(* Tensor and ndarray primitives *)

Idx(shape) == (0 .. shape[1] - 1) \X (0 .. shape[2] - 1) \X (0 .. shape[3] - 1)

(* new Tensor([], shape): a zero-filled buffer of that shape *)
NewTensor(shape, buf) ==
    [shape |-> shape, data |-> [idx \in Idx(shape) |-> 0], buf |-> buf]

(* ndarray.transpose(a0, a1, a2): axis n of the view is axis a_n of t *)
transpose(t, a0, a1, a2) ==
    LET perm == <<a0, a1, a2>>
        newShape == <<t.shape[a0 + 1], t.shape[a1 + 1], t.shape[a2 + 1]>>
        Old(idx) == [m \in 1 .. 3 |-> idx[CHOOSE n \in 1 .. 3 : perm[n] + 1 = m]]
    IN  [shape |-> newShape,
         data |-> [idx \in Idx(newShape) |-> t.data[Old(idx)]],
         buf |-> t.buf]

(* ops.assigns(t, v): every element becomes v *)
assigns(t, v) == [t EXCEPT !.data = [idx \in DOMAIN t.data |-> v]]

(* ops.assign(dst.hi(h).lo(l), src): src is copied into the region [l, h) of dst *)
assignRegion(dst, h, l, src) ==
    [dst EXCEPT !.data =
        [idx \in DOMAIN dst.data |->
            IF \A n \in 1 .. 3 : l[n] <= idx[n] /\ idx[n] < h[n]
            THEN src.data[<<idx[1] - l[1], idx[2] - l[2], idx[3] - l[3]>>]
            ELSE dst.data[idx]]]

(* t.hi(h).lo(l).pick(null, null, c): the elements of channel c in the     *)
(* region [l, h), in row-major order                                       *)
pickRegion(t, h, l, c) ==
    LET nr == h[1] - l[1]
        nc == h[2] - l[2]
    IN  [k \in 1 .. nr * nc |->
            t.data[<<l[1] + ((k - 1) \div nc), l[2] + ((k - 1) % nc), c>>]]

(* ops.sup: the maximum, starting from -Infinity *)
RECURSIVE sup(_)
sup(s) == IF s = <<>> THEN NEGATIVE_INFINITY ELSE Max(Head(s), sup(Tail(s)))

(* ops.sum: the sum, starting from 0 *)
RECURSIVE sum(_)
sum(s) == IF s = <<>> THEN 0 ELSE Head(s) + sum(Tail(s))

----------------------------------------------------------------------------
(* _Pooling2D *)

(* constructor(attrs); poolingFunc is what the concrete pooling class sets  *)
(* after the base constructor's default                                     *)
constructor(a) ==
    [poolSize |-> a.poolSize,
     strides |-> IF a.strides = Undefined THEN a.poolSize ELSE a.strides,
     borderMode |-> a.borderMode,
     dimOrdering |-> a.dimOrdering,
     poolingFunc |-> a.poolingFunc,
     outputShape |-> Undefined,
     inputPadding |-> Undefined]

(* outputSize with the "same" size rounded down instead of up *)
outputSize_truncSame(borderMode, input, nb, stride) ==
    IF borderMode = "same"
    THEN input \div stride
    ELSE (input - nb + stride) \div stride

(* outputRows / outputCols (lines 44-49) *)
outputSize(borderMode, input, nb, stride) ==
    IF borderMode = "same"
    THEN (input + stride - 1) \div stride
    ELSE (input - nb + stride) \div stride

(* totalPadding counting one window position too many *)
totalPadding_offByOne(borderMode, output, input, nb, stride) ==
    IF borderMode = "same"
    THEN Max(0, output * stride + nb - input)
    ELSE 0

(* paddingRow / paddingCol (lines 51-56) *)
totalPadding(borderMode, output, input, nb, stride) ==
    IF borderMode = "same"
    THEN Max(0, (output - 1) * stride + nb - input)
    ELSE 0

(* splitPadding with the odd cell on the "before" side *)
splitPadding_beforeHeavy(total) ==
    LET before == (total + 1) \div 2
        after == total - before
    IN  <<before, after>>

(* <<before, after>> of a total padding (lines 57-60) *)
splitPadding(total) ==
    LET before == total \div 2
        after == total - before
    IN  <<before, after>>

(* _calcOutputShape that keeps what an earlier call derived *)
_calcOutputShape_cached(l, t) ==
    IF l.outputShape # Undefined
    THEN l
    ELSE LET outputRows == outputSize(l.borderMode, t.shape[1], l.poolSize[1], l.strides[1])
             outputCols == outputSize(l.borderMode, t.shape[2], l.poolSize[2], l.strides[2])
             paddingRow == totalPadding(l.borderMode, outputRows, t.shape[1], l.poolSize[1], l.strides[1])
             paddingCol == totalPadding(l.borderMode, outputCols, t.shape[2], l.poolSize[2], l.strides[2])
         IN  [l EXCEPT
                 !.outputShape = <<outputRows, outputCols, t.shape[3]>>,
                 !.inputPadding = splitPadding(paddingRow) \o splitPadding(paddingCol)]

_calcOutputShape(l, t) ==
    LET inputRows == t.shape[1]
        inputCols == t.shape[2]
        inputChannels == t.shape[3]
        nbRow == l.poolSize[1]
        nbCol == l.poolSize[2]
        outputRows == outputSize(l.borderMode, inputRows, nbRow, l.strides[1])
        outputCols == outputSize(l.borderMode, inputCols, nbCol, l.strides[2])
        paddingRow == totalPadding(l.borderMode, outputRows, inputRows, nbRow, l.strides[1])
        paddingCol == totalPadding(l.borderMode, outputCols, inputCols, nbCol, l.strides[2])
        paddingRowBefore == splitPadding(paddingRow)[1]
        paddingRowAfter == splitPadding(paddingRow)[2]
        paddingColBefore == splitPadding(paddingCol)[1]
        paddingColAfter == splitPadding(paddingCol)[2]
    IN  [l EXCEPT
            !.outputShape = <<outputRows, outputCols, inputChannels>>,
            !.inputPadding = <<paddingRowBefore, paddingRowAfter,
                               paddingColBefore, paddingColAfter>>]

(* _padInput that leaves the border at zero for max pooling too *)
_padInput_zeroFill(l, t) ==
    IF l.borderMode = "same"
    THEN assignRegion(
             NewTensor(<<t.shape[1] + l.inputPadding[1] + l.inputPadding[2],
                         t.shape[2] + l.inputPadding[3] + l.inputPadding[4],
                         t.shape[3]>>, "padded"),
             <<t.shape[1] + l.inputPadding[1], t.shape[2] + l.inputPadding[3], t.shape[3]>>,
             <<l.inputPadding[1], l.inputPadding[3], 0>>,
             t)
    ELSE t

(* _padInput without the borderMode test *)
_padInput_always(l, t) ==
    LET _x0 == NewTensor(<<t.shape[1] + l.inputPadding[1] + l.inputPadding[2],
                           t.shape[2] + l.inputPadding[3] + l.inputPadding[4],
                           t.shape[3]>>, "padded")
        _x == IF l.poolingFunc = "max" THEN assigns(_x0, NEGATIVE_INFINITY) ELSE _x0
    IN  assignRegion(_x,
            <<t.shape[1] + l.inputPadding[1], t.shape[2] + l.inputPadding[3], t.shape[3]>>,
            <<l.inputPadding[1], l.inputPadding[3], 0>>,
            t)

_padInput(l, t) ==
    IF l.borderMode = "same"
    THEN LET inputRows == t.shape[1]
             inputCols == t.shape[2]
             inputChannels == t.shape[3]
             paddingRowBefore == l.inputPadding[1]
             paddingRowAfter == l.inputPadding[2]
             paddingColBefore == l.inputPadding[3]
             paddingColAfter == l.inputPadding[4]
             newRows == inputRows + paddingRowBefore + paddingRowAfter
             newCols == inputCols + paddingColBefore + paddingColAfter
             _x0 == NewTensor(<<newRows, newCols, inputChannels>>, "padded")
             _x == IF l.poolingFunc = "max"
                   THEN assigns(_x0, NEGATIVE_INFINITY)
                   ELSE _x0
         IN  assignRegion(_x,
                 <<inputRows + paddingRowBefore, inputCols + paddingColBefore, inputChannels>>,
                 <<paddingRowBefore, paddingColBefore, 0>>,
                 t)
    ELSE t

(* nbRowInPadding of the window starting at row i (lines 125-130) *)
nbRowInPadding(l, t, i) ==
    LET inputRows == t.shape[1]
        nbRow == l.poolSize[1]
        paddingRowBefore == l.inputPadding[1]
        paddingRowAfter == l.inputPadding[2]
    IN  IF i < paddingRowBefore
        THEN paddingRowBefore - i
        ELSE IF (i + nbRow) > (inputRows - paddingRowAfter)
             THEN (i + nbRow) - (inputRows - paddingRowAfter)
             ELSE 0

(* nbColInPadding of the window starting at column j (lines 133-138) *)
nbColInPadding(l, t, j) ==
    LET inputCols == t.shape[2]
        nbCol == l.poolSize[2]
        paddingColBefore == l.inputPadding[3]
        paddingColAfter == l.inputPadding[4]
    IN  IF j < paddingColBefore
        THEN paddingColBefore - j
        ELSE IF (j + nbCol) > (inputCols - paddingColAfter)
             THEN (j + nbCol) - (inputCols - paddingColAfter)
             ELSE 0

(* The body of the column loop at window (i, j): the value written to      *)
(* y[_i, _j, c] for every channel c (lines 140-148)                        *)
poolWindow(l, t, i, j, rowInPad, colInPad) ==
    LET nbRow == l.poolSize[1]
        nbCol == l.poolSize[2]
        inputChannels == t.shape[3]
        nbCellsEffective == (nbRow - rowInPad) * (nbCol - colInPad)
        patch(c) == pickRegion(t, <<i + nbRow, j + nbCol, inputChannels>>, <<i, j, 0>>, c)
    IN  [c \in 0 .. inputChannels - 1 |->
            IF l.poolingFunc = "max"
            THEN sup(patch(c))
            ELSE Quot(sum(patch(c)), nbCellsEffective)]

(* The column loop of row position (i, _i), from column position (j, _j) on *)
RECURSIVE colLoop(_, _, _, _, _, _)
colLoop(l, t, i, _i, j, _j) ==
    IF j <= t.shape[2] - l.poolSize[2]
    THEN LET rp == nbRowInPadding(l, t, i)
             cp == nbColInPadding(l, t, j)
         IN  <<[i |-> i, _i |-> _i, j |-> j, _j |-> _j,
                nbRowInPadding |-> rp, nbColInPadding |-> cp,
                nbCellsEffective |-> (l.poolSize[1] - rp) * (l.poolSize[2] - cp),
                vals |-> poolWindow(l, t, i, j, rp, cp)]>>
             \o colLoop(l, t, i, _i, j + l.strides[2], _j + 1)
    ELSE <<>>

(* rowLoop with a strict loop bound *)
RECURSIVE rowLoop_strictBound(_, _, _, _)
rowLoop_strictBound(l, t, i, _i) ==
    IF i < t.shape[1] - l.poolSize[1]
    THEN <<colLoop(l, t, i, _i, 0, 0)>> \o rowLoop_strictBound(l, t, i + l.strides[1], _i + 1)
    ELSE <<>>

(* The row loop from row position (i, _i) on: one entry per row position,  *)
(* holding the window positions of its column loop                         *)
RECURSIVE rowLoop(_, _, _, _)
rowLoop(l, t, i, _i) ==
    IF i <= t.shape[1] - l.poolSize[1]
    THEN <<colLoop(l, t, i, _i, 0, 0)>> \o rowLoop(l, t, i + l.strides[1], _i + 1)
    ELSE <<>>

(* y after the loop: new Tensor([], outputShape) with every y.tensor.set applied *)
outputTensor(l, rows) ==
    LET y0 == NewTensor(l.outputShape, "y")
        zero == IF l.poolingFunc = "max" THEN 0 ELSE Quot(0, 1)
        Written(idx) == idx[1] + 1 <= Len(rows) /\ idx[2] + 1 <= Len(rows[idx[1] + 1])
    IN  [y0 EXCEPT !.data =
            [idx \in Idx(l.outputShape) |->
                IF Written(idx)
                THEN rows[idx[1] + 1][idx[2] + 1].vals[idx[3]]
                ELSE zero]]

NoTrace == [xT |-> NoTensor, xPad |-> NoTensor, rows |-> <<>>]

(* The test of line 103 *)
invalidPoolingFunc(l) == l.poolingFunc # "max" /\ l.poolingFunc # "average"

(* call that tests poolingFunc only after deriving the shapes *)
call_lateCheck(l, t) ==
    LET xT == IF l.dimOrdering = "th" THEN transpose(t, 1, 2, 0) ELSE t
        l1 == _calcOutputShape(l, xT)
    IN  IF invalidPoolingFunc(l)
        THEN [err |-> TRUE, layer |-> l1, x |-> xT, trace |-> NoTrace]
        ELSE LET xPad == _padInput(l1, xT)
                 rows == rowLoop(l1, xPad, 0, 0)
                 y == outputTensor(l1, rows)
                 xOut == IF l.dimOrdering = "th" THEN transpose(y, 2, 0, 1) ELSE y
             IN  [err |-> FALSE, layer |-> l1, x |-> xOut,
                  trace |-> [xT |-> xT, xPad |-> xPad, rows |-> rows]]

(* call that converts back with the permutation it converted with *)
call_sameTransposeBack(l, t) ==
    IF invalidPoolingFunc(l)
    THEN [err |-> TRUE, layer |-> l, x |-> t, trace |-> NoTrace]
    ELSE LET xT == IF l.dimOrdering = "th" THEN transpose(t, 1, 2, 0) ELSE t
             l1 == _calcOutputShape(l, xT)
             xPad == _padInput(l1, xT)
             rows == rowLoop(l1, xPad, 0, 0)
             y == outputTensor(l1, rows)
             xOut == IF l.dimOrdering = "th" THEN transpose(y, 1, 2, 0) ELSE y
         IN  [err |-> FALSE, layer |-> l1, x |-> xOut,
              trace |-> [xT |-> xT, xPad |-> xPad, rows |-> rows]]

(* call(x): the layer and tensor it leaves, whether it threw, and a record *)
(* of its intermediate steps                                               *)
call(l, t) ==
    IF invalidPoolingFunc(l)
    THEN [err |-> TRUE, layer |-> l, x |-> t, trace |-> NoTrace]
    ELSE LET xT == IF l.dimOrdering = "th" THEN transpose(t, 1, 2, 0) ELSE t
             l1 == _calcOutputShape(l, xT)
             xPad == _padInput(l1, xT)
             rows == rowLoop(l1, xPad, 0, 0)
             y == outputTensor(l1, rows)
             xOut == IF l.dimOrdering = "th" THEN transpose(y, 2, 0, 1) ELSE y
         IN  [err |-> FALSE, layer |-> l1, x |-> xOut,
              trace |-> [xT |-> xT, xPad |-> xPad, rows |-> rows]]

----------------------------------------------------------------------------
(* The caller's inputs *)

Patterns == {"alt", "neg"}

(* Element n (row-major) of an input: distinct finite values; "alt"        *)
(* alternates sign, "neg" is negative throughout                           *)
InputValue(pat, n) ==
    IF pat = "alt" THEN (IF n % 2 = 1 THEN -(n + 1) ELSE n + 1)
    ELSE -(n + 1)

InputTensor(shape, pat) ==
    [shape |-> shape,
     data |-> [idx \in Idx(shape) |->
                  InputValue(pat, (idx[1] * shape[2] + idx[2]) * shape[3] + idx[3])],
     buf |-> "caller"]

(* The shape a caller passes for H rows, W columns and C channels *)
ShapeFor(ordering, H, W, C) == IF ordering = "th" THEN <<C, H, W>> ELSE <<H, W, C>>

Inputs(ordering, maxDim, maxChan, pats) ==
    {InputTensor(ShapeFor(ordering, H, W, C), pat) :
        H \in 1 .. maxDim, W \in 1 .. maxDim, C \in 1 .. maxChan, pat \in pats}

Attrs(maxPool, strideSet) ==
    [poolSize : (1 .. maxPool) \X (1 .. maxPool),
     strides : strideSet,
     borderMode : {"valid", "same"},
     dimOrdering : {"tf", "th"},
     poolingFunc : {"max", "average", "min"}]

RECURSIVE SeqsOf(_, _)
SeqsOf(S, n) == IF n = 0 THEN {<<>>} ELSE {<<e>> \o s : e \in S, s \in SeqsOf(S, n - 1)}

----------------------------------------------------------------------------
(* State machine *)

InitWith(a, p) ==
    /\ attrs = a
    /\ layer = constructor(a)
    /\ pending = p
    /\ x = NoTensor
    /\ xIn = NoTensor
    /\ layerIn = constructor(a)
    /\ trace = NoTrace
    /\ err = FALSE
    /\ calls = 0

(* One layer of any configuration, one input *)
Init ==
    \E a \in Attrs(MaxPool, ((1 .. MaxStride) \X (1 .. MaxStride)) \cup {Undefined}) :
        \E t \in Inputs(a.dimOrdering, MaxDim, MaxChan, Patterns) :
            InitWith(a, <<t>>)

(* One layer with default strides, MaxCalls inputs of any sizes *)
InitSeq ==
    \E a \in Attrs(SeqMaxPool, {Undefined}) :
        \E p \in SeqsOf(Inputs(a.dimOrdering, SeqMaxDim, 1, {"alt"}), MaxCalls) :
            InitWith(a, p)

Step(r) ==
    /\ layer' = r.layer
    /\ x' = r.x
    /\ xIn' = Head(pending)
    /\ layerIn' = layer
    /\ trace' = r.trace
    /\ err' = r.err
    /\ pending' = Tail(pending)
    /\ calls' = calls + 1
    /\ UNCHANGED attrs

(* layer.call(x) returns *)
Call ==
    /\ pending # <<>>
    /\ ~invalidPoolingFunc(layer)
    /\ Step(call(layer, Head(pending)))

(* layer.call(x) throws *)
CallThrows ==
    /\ pending # <<>>
    /\ invalidPoolingFunc(layer)
    /\ Step(call(layer, Head(pending)))

Next == Call \/ CallThrows

Spec == Init /\ [][Next]_vars

SpecSeq == InitSeq /\ [][Next]_vars

----------------------------------------------------------------------------
(* Vocabulary of the properties: the last call in the caller's terms *)

Done == calls > 0 /\ ~err

ChannelsFirst == layer.dimOrdering = "th"

(* Rows, columns and channels of the tensor the caller passed *)
H == IF ChannelsFirst THEN xIn.shape[2] ELSE xIn.shape[1]
W == IF ChannelsFirst THEN xIn.shape[3] ELSE xIn.shape[2]
C == IF ChannelsFirst THEN xIn.shape[1] ELSE xIn.shape[3]

(* Element (row h, column w, channel c) of the tensor the caller passed *)
In(h, w, c) == IF ChannelsFirst THEN xIn.data[<<c, h, w>>] ELSE xIn.data[<<h, w, c>>]

(* Element (row i, column j, channel c) of the tensor call returned *)
Out(i, j, c) == IF ChannelsFirst THEN x.data[<<c, i, j>>] ELSE x.data[<<i, j, c>>]

kh == layer.poolSize[1]
kw == layer.poolSize[2]
sh == layer.strides[1]
sw == layer.strides[2]

(* The closed forms of the output extent and of the total padding *)
ExpectedOut(n, k, s) ==
    IF layer.borderMode = "same" THEN (n + s - 1) \div s ELSE (n - k + s) \div s

ExpectedPad(n, k, s) ==
    IF layer.borderMode = "same"
    THEN Max(0, (ExpectedOut(n, k, s) - 1) * s + k - n)
    ELSE 0

ExpectedShape ==
    IF ChannelsFirst
    THEN <<C, ExpectedOut(H, kh, sh), ExpectedOut(W, kw, sw)>>
    ELSE <<ExpectedOut(H, kh, sh), ExpectedOut(W, kw, sw), C>>

(* Every window position the loop visited *)
Windows ==
    UNION {{trace.rows[r][k] : k \in 1 .. Len(trace.rows[r])} : r \in 1 .. Len(trace.rows)}

(* The cells of window w, in padded coordinates, that hold input values *)
RealCells(w) ==
    {rc \in (w.i .. w.i + kh - 1) \X (w.j .. w.j + kw - 1) :
        /\ layer.inputPadding[1] <= rc[1] /\ rc[1] < layer.inputPadding[1] + H
        /\ layer.inputPadding[3] <= rc[2] /\ rc[2] < layer.inputPadding[3] + W}

RealValue(rc, c) == In(rc[1] - layer.inputPadding[1], rc[2] - layer.inputPadding[3], c)

RECURSIVE RealSum(_, _)
RealSum(cells, c) ==
    IF cells = {} THEN 0
    ELSE LET rc == CHOOSE e \in cells : TRUE
         IN  RealValue(rc, c) + RealSum(cells \ {rc}, c)

RealMax(cells, c) ==
    CHOOSE m \in {RealValue(rc, c) : rc \in cells} : \A rc \in cells : RealValue(rc, c) <= m

PaddingTotal ==
    layer.inputPadding[1] + layer.inputPadding[2] + layer.inputPadding[3] + layer.inputPadding[4]

----------------------------------------------------------------------------
(* C1: with the average reducer in "same" mode every output cell is the    *)
(* mean of the input values its window covers, the divisor                 *)
(* (kh - nbRowInPadding) * (kw - nbColInPadding) being the number of those *)
(* values, also for a window that reaches into the padding on both sides   *)
(* of an axis.                                                             *)
C1_AverageOverRealCells ==
    (Done /\ layer.poolingFunc = "average" /\ layer.borderMode = "same") =>
        \A w \in Windows :
            /\ w.nbCellsEffective = Cardinality(RealCells(w))
            /\ \A c \in 0 .. C - 1 :
                  /\ w.vals[c] = Quot(RealSum(RealCells(w), c), Cardinality(RealCells(w)))
                  /\ Out(w._i, w._j, c) = w.vals[c]

(* C2: with the max reducer, in either padding mode, every output cell is  *)
(* the maximum of the input values its window covers, and is never the     *)
(* padding's negative infinity.                                            *)
C2_MaxOverRealCells ==
    (Done /\ layer.poolingFunc = "max") =>
        \A w \in Windows : \A c \in 0 .. C - 1 :
            /\ RealCells(w) # {}
            /\ Out(w._i, w._j, c) = RealMax(RealCells(w), c)
            /\ Out(w._i, w._j, c) # NEGATIVE_INFINITY

C2_Witness ==
    /\ Done /\ layer.poolingFunc = "max" /\ layer.borderMode = "same"
    /\ \E w \in Windows :
          /\ w.nbRowInPadding > 0 /\ w.nbColInPadding > 0
          /\ \A c \in 0 .. C - 1 :
                Out(w._i, w._j, c) = RealMax(RealCells(w), c) /\ Out(w._i, w._j, c) < 0

(* C3: when the window is not larger than the input in "valid" mode, the   *)
(* returned tensor has the closed-form output extents and the input's      *)
(* channel count.                                                          *)
C3_OutputShape ==
    (Done /\ (layer.borderMode = "valid" => kh <= H /\ kw <= W)) =>
        x.shape = ExpectedShape

C3_Witness ==
    /\ Done /\ layer.borderMode = "same" /\ ~ChannelsFirst
    /\ H = 3 /\ W = 2 /\ C = 2 /\ sh = 2 /\ sw = 1
    /\ x.shape = <<2, 2, 2>>

(* C4: the padding spec is non-negative, each axis sums to the closed-form *)
(* total, before = floor(total / 2), the odd cell is on the "after" side,  *)
(* and "valid" mode has no padding.                                        *)
C4_PaddingSplit ==
    Done =>
        LET p == layer.inputPadding
            padH == ExpectedPad(H, kh, sh)
            padW == ExpectedPad(W, kw, sw)
        IN  /\ \A n \in 1 .. 4 : p[n] >= 0
            /\ p[1] + p[2] = padH /\ p[3] + p[4] = padW
            /\ p[1] = padH \div 2 /\ p[3] = padW \div 2
            /\ p[2] - p[1] = padH % 2 /\ p[4] - p[3] = padW % 2
            /\ layer.borderMode = "valid" => p = <<0, 0, 0, 0>>

C4_Witness ==
    /\ Done /\ layer.borderMode = "same"
    /\ layer.inputPadding[1] = 0 /\ layer.inputPadding[2] = 1
    /\ layer.inputPadding[3] = 1 /\ layer.inputPadding[4] = 1

(* C5: call throws exactly when poolingFunc is neither "max" nor           *)
(* "average", and then leaves the tensor and the layer as they were.       *)
C5_ThrowsOnlyOnBadReducer ==
    calls > 0 =>
        /\ err <=> layer.poolingFunc \notin {"max", "average"}
        /\ err => (x = xIn /\ layer = layerIn)

C5_Witness ==
    /\ calls > 0 /\ err /\ layer.poolingFunc = "min"
    /\ ChannelsFirst /\ x = xIn /\ layer.outputShape = Undefined

(* C6: in channels-first order the output is (C, outH, outW) and its       *)
(* element [c][i][j] is element [i][j][c] of pooling the (H, W, C) form of *)
(* the input in channels-last order; the two transposes undo each other.   *)
C6_ChannelsFirst ==
    (Done /\ ChannelsFirst) =>
        LET tf == [shape |-> <<H, W, C>>,
                   data |-> [idx \in Idx(<<H, W, C>>) |-> In(idx[1], idx[2], idx[3])],
                   buf |-> xIn.buf]
            r == call([layerIn EXCEPT !.dimOrdering = "tf"], tf)
        IN  /\ x.shape[1] = C
            /\ x.shape = <<r.x.shape[3], r.x.shape[1], r.x.shape[2]>>
            /\ \A idx \in Idx(x.shape) : x.data[idx] = r.x.data[<<idx[2], idx[3], idx[1]>>]
            /\ transpose(transpose(xIn, 1, 2, 0), 2, 0, 1) = xIn

C6_Witness ==
    /\ Done /\ ChannelsFirst
    /\ xIn.shape = <<2, 3, 1>> /\ x.shape = <<2, 3, 1>>
    /\ x.data[<<1, 2, 0>>] # x.data[<<0, 2, 0>>]

(* C7 as stated: in both padding modes the loop runs outH row positions,   *)
(* each with outW column positions, and writes exactly the indices of      *)
(* [0, outH) x [0, outW), each once per channel.                           *)
C7_LoopMatchesOutputShape ==
    Done =>
        /\ Len(trace.rows) = layer.outputShape[1]
        /\ \A r \in 1 .. Len(trace.rows) :
              /\ Len(trace.rows[r]) = layer.outputShape[2]
              /\ \A k \in 1 .. Len(trace.rows[r]) :
                    /\ trace.rows[r][k]._i = r - 1
                    /\ trace.rows[r][k]._j = k - 1
                    /\ DOMAIN trace.rows[r][k].vals = 0 .. layer.outputShape[3] - 1
        /\ {<<w._i, w._j>> : w \in Windows}
              = (0 .. layer.outputShape[1] - 1) \X (0 .. layer.outputShape[2] - 1)

(* C7 amended: the same, whenever the derived outH and outW are not        *)
(* negative ("same" mode always; "valid" mode when the window is not       *)
(* larger than the input).                                                 *)
C7_LoopMatchesNonNegativeShape ==
    (layer.outputShape # Undefined /\ layer.outputShape[1] >= 0 /\ layer.outputShape[2] >= 0)
        => C7_LoopMatchesOutputShape

C7_Witness ==
    /\ Done /\ layer.borderMode = "same"
    /\ layer.outputShape = <<2, 3, 2>>
    /\ Len(trace.rows) = 2 /\ Len(trace.rows[2]) = 3
    /\ layer.inputPadding[2] > 0

(* C8 as stated: _padInput keeps the caller's buffer, shape and values     *)
(* when the mode is "valid" or the total padding is zero, and replaces the *)
(* tensor only in "same" mode with total padding > 0.                      *)
C8_PadNoOpWithoutPadding ==
    Done =>
        /\ (layer.borderMode = "valid" \/ PaddingTotal = 0) => trace.xPad = trace.xT
        /\ trace.xPad.buf # trace.xT.buf => (layer.borderMode = "same" /\ PaddingTotal > 0)

(* C8 amended: _padInput keeps shape and values when the mode is "valid"   *)
(* or the total padding is zero; it keeps the buffer in "valid" mode and   *)
(* replaces it by a new one in "same" mode, zero padding included.         *)
C8_PadReplacesInSameMode ==
    Done =>
        /\ (layer.borderMode = "valid" \/ PaddingTotal = 0) =>
              (trace.xPad.shape = trace.xT.shape /\ trace.xPad.data = trace.xT.data)
        /\ layer.borderMode = "valid" => trace.xPad.buf = trace.xT.buf
        /\ layer.borderMode = "same" =>
              (trace.xPad.buf = "padded" /\ trace.xPad.buf # trace.xT.buf)

C8_Witness ==
    /\ Done /\ layer.borderMode = "same" /\ PaddingTotal = 0
    /\ H = 3 /\ W = 3
    /\ trace.xPad.buf = "padded" /\ trace.xT.buf = "caller"
    /\ trace.xPad.data = trace.xT.data

(* C9: every call on a used layer leaves the layer, the tensor and the     *)
(* outcome that a freshly constructed layer of the same attributes leaves  *)
(* for the same input; the configuration fields never change.              *)
C9_CallsIndependent ==
    calls > 0 =>
        LET r == call(constructor(attrs), xIn)
        IN  /\ layer = r.layer
            /\ x = r.x
            /\ err = r.err
            /\ \A f \in {"poolSize", "strides", "borderMode", "dimOrdering", "poolingFunc"} :
                  layer[f] = constructor(attrs)[f]

C9_Witness ==
    /\ calls = MaxCalls /\ ~err
    /\ layerIn.outputShape # Undefined
    /\ layerIn.outputShape # layer.outputShape
    /\ layerIn.inputPadding # layer.inputPadding

(* C10: the total padding of an axis is less than the window extent on it, *)
(* so every visited window has 0 <= nbRowInPadding < kh,                   *)
(* 0 <= nbColInPadding < kw, a divisor of at least 1 and at least one      *)
(* input cell.                                                             *)
C10_DivisorPositive ==
    Done =>
        /\ layer.inputPadding[1] + layer.inputPadding[2] < kh
        /\ layer.inputPadding[3] + layer.inputPadding[4] < kw
        /\ \A w \in Windows :
              /\ 0 <= w.nbRowInPadding /\ w.nbRowInPadding < kh
              /\ 0 <= w.nbColInPadding /\ w.nbColInPadding < kw
              /\ w.nbCellsEffective >= 1
              /\ RealCells(w) # {}

C10_Witness ==
    /\ Done /\ layer.borderMode = "same" /\ layer.poolingFunc = "average"
    /\ \E w \in Windows :
          /\ w.nbRowInPadding = 1 /\ w.nbColInPadding = 1
          /\ kh = 3 /\ kw = 2 /\ w.nbCellsEffective = 2

====
